---- MODULE Spec2Model ----
(***************************************************************************)
(* Model of bittrex_autotrader.py: the BittrexAutoTrader trading loop      *)
(* (init / submit_order) and the request construction of                   *)
(* BittrexApiRequest.get.                                                  *)
(*                                                                         *)
(* Units.  Prices (Bid, Ask, Last, Price, Limit) are integers counting     *)
(* 1e-8 of the quote currency, the exchange's price increment, so that     *)
(* round(x, 8) is rounding to an integer.  Spread fractions are integers   *)
(* counting 1/SpreadDen.  Quantities are rationals n/d.                    *)
(*                                                                         *)
(* Python values that reach a comparison or a URL carry their Python type: *)
(* a value is a record [t, s, n, d] with t in {"str", "float", "int"};     *)
(* s is the text of a non-numeric string, n/d the number a float, an int   *)
(* or a numeric string denotes.                                            *)
(***************************************************************************)
EXTENDS Integers, Sequences, FiniteSets, TLC

VARIABLES
    pc,             \* position of the single thread of control
    shares,         \* self.shares
    spread,         \* self.spread
    orders,         \* self.orders, the ledger
    active,         \* self.active, the cursor
    last_trade,     \* init's local last_trade (submit_order's trade_type)
    market_history, \* submit_order's local market_history
    market_avg,     \* submit_order's local market_avg
    market_max,     \* submit_order's local market_max
    ticker,         \* submit_order's local ticker
    total_units,    \* submit_order's local total_units
    uuid,           \* submit_order's local uuid
    exchange,       \* the orders the exchange holds for this account
    now,            \* int(time.time())
    log,            \* the remote calls issued so far, with their outcome
    last_req,       \* the HTTP request most recently passed to requests.get
    exit_status,    \* <<>> while running, <<code>> once the process ended
    stderr,         \* what was printed to sys.stderr
    exception,      \* the uncaught exception that ended the process, or "None"
    received        \* the exchange's record of the last two authenticated
                    \* requests: the nonce of each and the second it was issued

vars == << pc, shares, spread, orders, active, last_trade, market_history,
           market_avg, market_max, ticker, total_units, uuid, exchange, now,
           log, last_req, exit_status, stderr, exception, received >>

-----------------------------------------------------------------------------
(* Bounds of the model *)

MaxRequests == 13
MaxTicks == 1
MaxHist == 3

-----------------------------------------------------------------------------
(* Program constants and units *)

BASE_URL == "https://bittrex.com/api/v1.1/"

\* 0.0005 of the quote currency, in 1e-8 units
MinNotional == 50000

\* BittrexAutoTrader._wait(seconds=30)
WaitSeconds == 30

\* spread fractions count hundredths: "0.02" is 2
SpreadDen == 100

\* share sizes count hundredths: "0.01" is 1
ShareDen == 100

\* 1.0 of the quote currency, in 1e-8 units
One == 100000000

-----------------------------------------------------------------------------
(* Python values *)

TxtVal(s) == [t |-> "str", s |-> s, n |-> 0, d |-> 1]
StrVal(n, d) == [t |-> "str", s |-> "", n |-> n, d |-> d]
FloatVal(n, d) == [t |-> "float", s |-> "", n |-> n, d |-> d]
IntVal(n) == [t |-> "int", s |-> "", n |-> n, d |-> 1]

\* A local name of submit_order that is not bound yet: a placeholder of the
\* kind of value the name is bound to later (a number, a value, a ticker)
Unbound == -1

UnboundVal == [t |-> "unbound", s |-> "", n |-> 0, d |-> 1]

UnboundTicker == [Bid |-> Unbound, Ask |-> Unbound, Last |-> Unbound]

\* numpy's nan, which is no price
NaN == -2

\* str(value): the text of the value.  Python 2 prints a float with 12
\* significant digits, which is exact for every number of this model.
PyStr(v) == [v EXCEPT !.t = "str"]

\* float(value): the number a numeric string or a number denotes.
PyFloat(v) == [v EXCEPT !.t = "float", !.s = ""]

\* a < b as CPython 2 evaluates it: numbers are compared by value, and a
\* number is smaller than any string whatever the string's text.
\* (The program compares a float with a float or with a str only.)
PyLess(a, b) ==
    IF a.t # "str" /\ b.t # "str" THEN a.n * b.d < b.n * a.d
    ELSE a.t # "str" /\ b.t = "str"

\* round(num / den, 8) in 1e-8 units, for num >= 0: halves round away from 0.
Round8(num, den) ==
    (num \div den) + (IF 2 * (num % den) >= den THEN 1 ELSE 0)

-----------------------------------------------------------------------------
(* Settings (main, BittrexAutoTrader.__init__) *)

\* The options reach the object as strings, from argparse or ConfigParser.
Settings(sh, sp) ==
    [apikey |-> "KEY", secret |-> "SECRET", market |-> "BTC-LTC",
     shares |-> StrVal(sh, ShareDen), spread |-> sp]

\* The share sizes and the "markup/markdown" strings a session is started
\* with; a spread string is the sequence of its '/'-separated fields.
Configs == { Settings(1, <<2, 1>>), Settings(100, <<0, 3>>) }

\* settings['spread'].split('/')
SplitSlash(sp) == [i \in 1..Len(sp) |-> StrVal(sp[i], SpreadDen)]

\* list[i] of a Python list: indices start at 0, negative ones count from
\* the end
ListGet(list, i) == IF i < 0 THEN list[Len(list) + i + 1] ELSE list[i + 1]

apikey == "KEY"
secret == "SECRET"
market == "BTC-LTC"

-----------------------------------------------------------------------------
(* Market statistics (submit_order, lines 138-148) *)

Sides == {"BUY", "SELL"}

ListOfDictFilterByAny(data, key, value) == data

\* _list_of_dict_filter_by
ListOfDictFilterBy(data, key, value) ==
    SelectSeq(data, LAMBDA item : item[key] = value)

\* _list_of_dict_to_csv: one row per item, holding the columns named in keys
ListOfDictToCsv(data, keys) ==
    [i \in 1..Len(data) |->
        [c \in 1..Len(keys) |-> PyStr(FloatVal(data[i][keys[c]], 1))]]

\* _numpy_loadtxt: the rows parsed back as floats; with one column and
\* unpack=True the result is the one-dimensional array of that column
NumpyLoadtxt(data, keys) ==
    LET csv == ListOfDictToCsv(data, keys)
    IN  [i \in 1..Len(csv) |-> PyFloat(csv[i][1]).n]

RECURSIVE ArraySum(_)
ArraySum(a) == IF a = <<>> THEN 0 ELSE a[1] + ArraySum(Tail(a))

RECURSIVE ArrayMax(_)
\* ndarray.max() of a non-empty array
ArrayMax(a) ==
    IF Len(a) = 1 THEN a[1]
    ELSE LET m == ArrayMax(Tail(a)) IN IF a[1] > m THEN a[1] ELSE m

MaxRaisesNever(a) == FALSE

\* ndarray.max() raises ValueError on a zero-size array
MaxRaises(a) == a = <<>>

\* round(price_history.mean(), 8); the mean of an empty array is nan
MarketAvg(a) == IF a = <<>> THEN NaN ELSE Round8(ArraySum(a), Len(a))

\* round(price_history.max(), 8)
MarketMax(a) == IF a = <<>> THEN NaN ELSE Round8(ArrayMax(a), 1)

PriceHistory(history, trade_type) ==
    NumpyLoadtxt(ListOfDictFilterBy(history, "OrderType", trade_type),
                 <<"Price">>)

-----------------------------------------------------------------------------
(* Quantity and price (submit_order, lines 153-194) *)

\* total_units: 0.0005 / float(ticker['Last']), replaced by self.shares
\* when it compares smaller
TotalUnits(tk, sh) ==
    LET units == FloatVal(MinNotional, tk.Last)
    IN  IF PyLess(units, sh) THEN sh ELSE units

TraderBidSwapped(tk, sp) ==
    LET ticker_bid == tk.Bid
    IN  Round8(ticker_bid * SpreadDen - ticker_bid * PyFloat(ListGet(sp, 0)).n,
               SpreadDen)

\* trader_bid (lines 168-171)
TraderBid(tk, sp) ==
    LET ticker_bid == tk.Bid
    IN  Round8(ticker_bid * SpreadDen - ticker_bid * PyFloat(ListGet(sp, 1)).n,
               SpreadDen)

\* trader_ask (lines 182-185)
TraderAsk(tk, sp) ==
    LET ticker_ask == tk.Ask
    IN  Round8(ticker_ask * SpreadDen + ticker_ask * PyFloat(ListGet(sp, 0)).n,
               SpreadDen)

-----------------------------------------------------------------------------
(* Request construction (BittrexApiRequest.get, _sign) *)

\* hmac.new(secret, message, hashlib.sha512).hexdigest(): an ideal keyed
\* digest, different for different keys or messages
Sign(key, message) == [key |-> key, message |-> message]

Reverse(seq) == [i \in 1..Len(seq) |-> seq[Len(seq) + 1 - i]]

\* The order in which params.iteritems() yields the keys of a dict filled in
\* the order inserted: an order the hash table decides, here the insertion
\* order or its reverse.
IterOrders(inserted) == { inserted, Reverse(inserted) }

WithAuthAlways(params, signed, t) ==
    [k \in DOMAIN params \cup {"apikey", "nonce"} |->
        IF k = "apikey" THEN TxtVal(apikey)
        ELSE IF k = "nonce" THEN PyStr(IntVal(t))
        ELSE params[k]]

WithAuthWrapped(params, signed, t) ==
    IF signed
    THEN [k \in DOMAIN params \cup {"apikey", "nonce"} |->
            IF k = "apikey" THEN TxtVal(apikey)
            ELSE IF k = "nonce" THEN PyStr(IntVal(t % 60))
            ELSE params[k]]
    ELSE params

WithAuthCounter(params, signed, t) ==
    IF signed
    THEN [k \in DOMAIN params \cup {"apikey", "nonce"} |->
            IF k = "apikey" THEN TxtVal(apikey)
            ELSE IF k = "nonce" THEN PyStr(IntVal(t + Len(log)))
            ELSE params[k]]
    ELSE params

\* lines 636-639: the parameters once apikey and nonce are added
WithAuth(params, signed, t) ==
    IF signed
    THEN [k \in DOMAIN params \cup {"apikey", "nonce"} |->
            IF k = "apikey" THEN TxtVal(apikey)
            ELSE IF k = "nonce" THEN PyStr(IntVal(t))
            ELSE params[k]]
    ELSE params

\* lines 641-649: name=value pairs joined by '&' after BASE_URL + method + '?'
Url(method, params, order) ==
    [base |-> BASE_URL, method |-> method,
     query |-> [i \in 1..Len(order) |-> <<order[i], PyStr(params[order[i]])>>]]

SignedHeadersBare(method, params, order, signed) ==
    IF signed
    THEN {<<"apisign", Sign(secret, Url(method, params, <<>>))>>}
    ELSE {}

\* lines 651-656: the headers, a set of name/value pairs
SignedHeaders(method, params, order, signed) ==
    IF signed
    THEN {<<"apisign", Sign(secret, Url(method, params, order))>>}
    ELSE {}

\* No request sent yet
NoRequest ==
    [url |-> [base |-> "", method |-> "", query |-> <<>>], headers |-> {},
     signed |-> FALSE]

\* The request handed to requests.get (line 659)
BuildRequest(method, params, signed, t, order) ==
    LET p == WithAuth(params, signed, t)
    IN  [url |-> Url(method, p, order),
         headers |-> SignedHeaders(method, p, order, signed),
         signed |-> signed]

-----------------------------------------------------------------------------
(* The exchange *)

\* The messages of a response with success = false
Messages == {"INSUFFICIENT_FUNDS", "INVALID_SIGNATURE"}

\* Responses of public/getticker
Tickers ==
    { [Bid |-> 5000000, Ask |-> 5100000, Last |-> 5050000],
      [Bid |-> 149, Ask |-> 151, Last |-> 150],
      [Bid |-> 150, Ask |-> 250, Last |-> 200] }

Trade(p, side) == [Price |-> p, Quantity |-> 1, OrderType |-> side]

\* Responses of public/getmarkethistory to the trading loop
LoopHistories ==
    { <<>>,
      <<Trade(One, "BUY")>>,
      <<Trade(2 * One, "SELL"), Trade(3 * One, "SELL")>> }

UuidValFirst(k) == [t |-> "str", s |-> "uuid", n |-> 1, d |-> 1]

UuidVal(k) == [t |-> "str", s |-> "uuid", n |-> k, d |-> 1]

\* The record the exchange keeps for an accepted limit order
NewOrder(k, type, quantity, rate) ==
    [OrderUuid |-> k, Type |-> type,
     Quantity |-> [n |-> quantity.n, d |-> quantity.d],
     Limit |-> rate.n, IsOpen |-> TRUE]

OpenOrders == { k \in 1..Len(exchange) : exchange[k].IsOpen }

\* The value a request carries for a parameter, as the exchange reads it
\* from the query string
ReqValue(req, name) ==
    LET q == req.url.query
        i == CHOOSE i \in 1..Len(q) : q[i][1] = name
    IN  q[i][2]

\* The exchange notes the nonce of an authenticated request and the second
\* it arrives in, and forgets all but the last two
Received(req, t) ==
    IF req.signed
    THEN Append(IF Len(received) < 2 THEN received ELSE Tail(received),
                [nonce |-> ReqValue(req, "nonce").n, at |-> t])
    ELSE received

-----------------------------------------------------------------------------
(* The process *)

Init ==
    /\ pc = "loop"
    /\ \E settings \in Configs :
          /\ shares = settings.shares
          /\ spread = SplitSlash(settings.spread)
    /\ orders = <<>>
    /\ active = 0
    /\ last_trade = "None"
    /\ market_history = <<>>
    /\ market_avg = Unbound
    /\ market_max = Unbound
    /\ ticker = UnboundTicker
    /\ total_units = UnboundVal
    /\ uuid = Unbound
    /\ exchange = <<>>
    /\ now = 0
    /\ log = <<>>
    /\ last_req = NoRequest
    /\ exit_status = <<>>
    /\ stderr = <<>>
    /\ exception = "None"
    /\ received = <<>>

loopVars == << shares, spread, orders, active, last_trade >>
localVars == << market_history, market_avg, market_max, ticker, total_units, uuid >>
endVars == << exit_status, stderr, exception >>

\* requests.get(url, headers=headers) and the outcome recorded for it
\* (ok, open, msg: the response's success flag, the IsOpen of the order it
\* returns, its message)
Sent(call, req, ok, open, msg) ==
    /\ log' = Append(log, [call |-> call, ok |-> ok, open |-> open, msg |-> msg])
    /\ last_req' = req
    /\ received' = Received(req, now)

FailureIgnored(message) ==
    /\ pc' = pc
    /\ UNCHANGED << loopVars, localVars, endVars, exchange, now >>

\* lines 662-664: success == False prints the message and calls sys.exit(1)
Failure(message) ==
    /\ pc' = "exited"
    /\ stderr' = Append(stderr, <<"Bittex response: %s", message>>)
    /\ exit_status' = <<1>>
    /\ UNCHANGED << loopVars, localVars, exception, exchange, now >>

NextTradeSame(last) == "SELL"

\* line 125
NextTrade(last) == IF last = "SELL" THEN "BUY" ELSE "SELL"

AfterPollSubmit(order) == "submit"

AfterPollSpin(order) == IF order.IsOpen THEN "loop" ELSE "submit"

AfterPollStop(order) == IF order.IsOpen THEN "wait" ELSE "done"

AfterPollAgain(order) == IF order.IsOpen THEN "wait" ELSE "loop"

\* lines 120-122: an open order is waited for, otherwise a new one is submitted
AfterPoll(order) == IF order.IsOpen THEN "wait" ELSE "submit"

PollReturnedStoring(order) ==
    /\ pc' = AfterPoll(order)
    /\ orders' = [orders EXCEPT ![active] = order]
    /\ UNCHANGED << shares, spread, active, last_trade, localVars, endVars,
                    exchange, now >>

\* line 116-120: the record account_order returned is held in the local
\* order and looked at only
PollReturned(order) ==
    /\ pc' = AfterPoll(order)
    /\ UNCHANGED << loopVars, localVars, endVars, exchange, now >>

\* lines 115-122: the active order is fetched when the ledger is not empty
Poll ==
    /\ pc = "loop"
    /\ orders # <<>>
    /\ Len(log) < MaxRequests
    /\ \E ord \in IterOrders(<<"uuid", "apikey", "nonce">>) :
         LET id  == ListGet(orders, active - 1).OrderUuid
             req == BuildRequest("account/getorder", [uuid |-> UuidVal(id)],
                                 TRUE, now, ord)
         IN  \/ \E m \in Messages :
                  /\ Sent("poll", req, FALSE, FALSE, m)
                  /\ Failure(m)
             \/ LET order == exchange[ReqValue(req, "uuid").n]
                IN  /\ Sent("poll", req, TRUE, order.IsOpen, "")
                    /\ PollReturned(order)

\* line 121: BittrexAutoTrader._wait(seconds=30)
Wait ==
    /\ pc = "wait"
    /\ now' = now + WaitSeconds
    /\ pc' = "loop"
    /\ UNCHANGED << loopVars, localVars, endVars, exchange, log, last_req,
                    received >>

\* lines 124-127: the side is flipped and submit_order is entered
NextOrder ==
    /\ \/ pc = "submit"
       \/ pc = "loop" /\ orders = <<>>
    /\ last_trade' = NextTrade(last_trade)
    /\ pc' = "history"
    /\ UNCHANGED << shares, spread, orders, active, localVars, endVars,
                    exchange, now, log, last_req, received >>

\* line 139
FetchHistory ==
    /\ pc = "history"
    /\ Len(log) < MaxRequests
    /\ LET req == BuildRequest("public/getmarkethistory",
                               [market |-> TxtVal(market)], FALSE, now,
                               <<"market">>)
       IN  \/ \E m \in Messages :
                /\ Sent("history", req, FALSE, FALSE, m)
                /\ Failure(m)
           \/ \E h \in LoopHistories :
                /\ Sent("history", req, TRUE, FALSE, "")
                /\ market_history' = h
                /\ pc' = "stats"
                /\ UNCHANGED << loopVars, market_avg, market_max, ticker,
                                total_units, uuid, endVars, exchange, now >>

\* lines 141-148
ComputeStats ==
    /\ pc = "stats"
    /\ LET price_history == PriceHistory(market_history, last_trade)
       IN  /\ market_avg' = MarketAvg(price_history)
           /\ IF MaxRaises(price_history)
              THEN /\ pc' = "crashed"
                   /\ exception' = "ValueError"
                   /\ exit_status' = <<1>>
                   /\ stderr' = Append(stderr, <<"Traceback", "ValueError">>)
                   /\ UNCHANGED market_max
              ELSE /\ market_max' = MarketMax(price_history)
                   /\ pc' = "ticker"
                   /\ UNCHANGED endVars
    /\ UNCHANGED << loopVars, market_history, ticker, total_units, uuid,
                    exchange, now, log, last_req, received >>

\* lines 151-156
FetchTicker ==
    /\ pc = "ticker"
    /\ Len(log) < MaxRequests
    /\ LET req == BuildRequest("public/getticker",
                               [market |-> TxtVal(market)], FALSE, now,
                               <<"market">>)
       IN  \/ \E m \in Messages :
                /\ Sent("ticker", req, FALSE, FALSE, m)
                /\ Failure(m)
           \/ \E tk \in Tickers :
                /\ Sent("ticker", req, TRUE, FALSE, "")
                /\ ticker' = tk
                /\ total_units' = TotalUnits(tk, shares)
                /\ pc' = "trade"
                /\ UNCHANGED << loopVars, market_history, market_avg,
                                market_max, uuid, endVars, exchange, now >>

\* lines 166-194: the limit order of the side being traded
SubmitLimit ==
    /\ pc = "trade"
    /\ Len(log) < MaxRequests
    /\ \E ord \in IterOrders(<<"market", "quantity", "rate", "apikey", "nonce">>) :
         LET buy    == last_trade = "BUY"
             rate   == IF buy THEN TraderBid(ticker, spread)
                       ELSE TraderAsk(ticker, spread)
             method == IF buy THEN "market/buylimit" ELSE "market/selllimit"
             call   == IF buy THEN "buylimit" ELSE "selllimit"
             type   == IF buy THEN "LIMIT_BUY" ELSE "LIMIT_SELL"
             params == [market |-> TxtVal(market), quantity |-> total_units,
                        rate |-> FloatVal(rate, One)]
             req    == BuildRequest(method, params, TRUE, now, ord)
         IN  \/ \E m \in Messages :
                  /\ Sent(call, req, FALSE, FALSE, m)
                  /\ Failure(m)
             \/ /\ Sent(call, req, TRUE, TRUE, "")
                /\ exchange' = Append(exchange,
                       NewOrder(Len(exchange) + 1, type,
                                PyStr(total_units), PyStr(FloatVal(rate, One))))
                /\ uuid' = Len(exchange) + 1
                /\ pc' = "store"
                /\ UNCHANGED << loopVars, market_history, market_avg,
                                market_max, ticker, total_units, endVars, now >>

StoredNowhere(order) ==
    /\ orders' = orders
    /\ active' = active + 1

\* lines 197-198: the fetched record is appended and the cursor advanced
Stored(order) ==
    /\ orders' = Append(orders, order)
    /\ active' = active + 1

\* lines 196-198: the order is fetched and appended; submit_order returns
StoreOrder ==
    /\ pc = "store"
    /\ Len(log) < MaxRequests
    /\ \E ord \in IterOrders(<<"uuid", "apikey", "nonce">>) :
         LET req == BuildRequest("account/getorder", [uuid |-> UuidVal(uuid)],
                                 TRUE, now, ord)
         IN  \/ \E m \in Messages :
                  /\ Sent("store", req, FALSE, FALSE, m)
                  /\ Failure(m)
             \/ LET order == exchange[ReqValue(req, "uuid").n]
                IN  /\ Sent("store", req, TRUE, order.IsOpen, "")
                    /\ Stored(order)
                    /\ pc' = "loop"
                    /\ market_history' = <<>>
                    /\ market_avg' = Unbound
                    /\ market_max' = Unbound
                    /\ ticker' = UnboundTicker
                    /\ total_units' = UnboundVal
                    /\ uuid' = Unbound
                    /\ UNCHANGED << shares, spread, last_trade, endVars,
                                    exchange, now >>

\* The exchange fills or cancels an open order
ExchangeClose ==
    /\ \E k \in OpenOrders :
         exchange' = [exchange EXCEPT ![k].IsOpen = FALSE]
    /\ UNCHANGED << pc, loopVars, localVars, endVars, now, log, last_req,
                    received >>

\* A second of wall-clock time passes while the process runs (MaxTicks
\* bounds the seconds that pass apart from the waits)
Tick ==
    /\ pc \notin {"exited", "crashed"}
    /\ now % WaitSeconds < MaxTicks
    /\ now' = now + 1
    /\ UNCHANGED << pc, loopVars, localVars, endVars, exchange, log, last_req,
                    received >>

Next ==
    \/ Poll
    \/ Wait
    \/ NextOrder
    \/ FetchHistory
    \/ ComputeStats
    \/ FetchTicker
    \/ SubmitLimit
    \/ StoreOrder
    \/ ExchangeClose
    \/ Tick

Spec == Init /\ [][Next]_vars

\* The steps of the process itself
ProcNext ==
    \/ Poll
    \/ Wait
    \/ NextOrder
    \/ FetchHistory
    \/ ComputeStats
    \/ FetchTicker
    \/ SubmitLimit
    \/ StoreOrder

\* The single thread of control takes its next step whenever it has one:
\* a remote call returns and a sleep ends.  Every step of the process moves
\* pc, so the fairness condition is stated on pc.
SpecLive == Init /\ [][Next]_vars /\ WF_pc(ProcNext)

-----------------------------------------------------------------------------
(* The statistics of submit_order on every bounded trade history *)

HistPrices == {1, 2, One, 2 * One, 3 * One}

RECURSIVE SeqsUpTo(_, _)
SeqsUpTo(S, n) ==
    IF n = 0 THEN { <<>> }
    ELSE LET shorter == SeqsUpTo(S, n - 1)
         IN  shorter \cup { Append(q, x) : q \in shorter, x \in S }

Histories == SeqsUpTo({ Trade(p, side) : p \in HistPrices, side \in Sides }, MaxHist)

HistoryRequest ==
    BuildRequest("public/getmarkethistory", [market |-> TxtVal(market)],
                 FALSE, 0, <<"market">>)

\* submit_order(trade_type) right after line 139 returned a history
InitStats ==
    /\ pc = "stats"
    /\ \E settings \in Configs :
          /\ shares = settings.shares
          /\ spread = SplitSlash(settings.spread)
    /\ orders = <<>>
    /\ active = 0
    /\ last_trade \in Sides
    /\ market_history \in Histories
    /\ market_avg = Unbound
    /\ market_max = Unbound
    /\ ticker = UnboundTicker
    /\ total_units = UnboundVal
    /\ uuid = Unbound
    /\ exchange = <<>>
    /\ now = 0
    /\ log = << [call |-> "history", ok |-> TRUE, open |-> FALSE, msg |-> ""] >>
    /\ last_req = HistoryRequest
    /\ exit_status = <<>>
    /\ stderr = <<>>
    /\ exception = "None"
    /\ received = <<>>

NextStats == ComputeStats

SpecStats == InitStats /\ [][NextStats]_vars

-----------------------------------------------------------------------------
(* A client of BittrexApiRequest that calls any of its operations, one
   after the other (lines 336-616) *)

\* The number of requests such a client sends
MaxCalls == 2

\* An operation: its name, the method it passes to get, the keys of the
\* params dict it passes in the order written (params FALSE when it passes
\* none and get keeps its default), and its signed argument
Operation(name, method, params, keys, signed) ==
    [name |-> name, method |-> method, params |-> params, keys |-> keys,
     signed |-> signed]

Operations ==
    { Operation("public_markets", "public/getmarkets", FALSE, <<>>, FALSE),
      Operation("public_currencies", "public/getcurrencies", FALSE, <<>>, FALSE),
      Operation("public_ticker", "public/getticker", TRUE, <<"market">>, FALSE),
      Operation("public_market_summaries", "public/getmarketsummaries", FALSE,
                <<>>, FALSE),
      Operation("public_market_summary", "public/getmarketsummary", TRUE,
                <<"market">>, FALSE),
      Operation("public_market_history", "public/getmarkethistory", TRUE,
                <<"market">>, FALSE),
      Operation("public_order_book", "public/getorderbook", TRUE,
                <<"market", "type">>, FALSE),
      Operation("market_buy_limit", "market/buylimit", TRUE,
                <<"market", "quantity", "rate">>, TRUE),
      Operation("market_sell_limit", "market/selllimit", TRUE,
                <<"market", "quantity", "rate">>, TRUE),
      Operation("market_cancel", "market/cancel", TRUE, <<"uuid">>, TRUE),
      Operation("market_open_orders", "market/getopenorders", TRUE,
                <<"market">>, TRUE),
      Operation("account_balances", "account/getbalances", FALSE, <<>>, TRUE),
      Operation("account_balance", "account/getbalance", TRUE,
                <<"currency">>, TRUE),
      Operation("account_deposit_address", "account/getdepositaddress", TRUE,
                <<"currency">>, TRUE),
      Operation("account_withdraw", "account/getwithdraw", TRUE,
                <<"currency", "quantity", "address", "paymentid">>, TRUE),
      Operation("account_order", "account/getorder", TRUE, <<"uuid">>, TRUE),
      Operation("account_order_history", "account/getorderhistory", TRUE,
                <<"market">>, TRUE),
      Operation("account_deposit_history", "account/getdeposithistory", TRUE,
                <<"currency">>, TRUE),
      Operation("account_withdrawl_history", "account/getwithdrawlhistory",
                TRUE, <<"currency">>, TRUE) }

\* The value the client passes for a parameter
Argument(key) ==
    IF key = "market" THEN TxtVal(market)
    ELSE IF key = "quantity" THEN FloatVal(1, 1)
    ELSE IF key = "rate" THEN FloatVal(5000000, One)
    ELSE IF key = "uuid" THEN UuidVal(1)
    ELSE TxtVal(key)

\* The params dict literal of an operation
Params(op) == [k \in { op.keys[i] : i \in 1..Len(op.keys) } |-> Argument(k)]

\* The keys of the dict that get iterates (line 643), in the order inserted
Inserted(op, t) ==
    LET p == WithAuth(Params(op), op.signed, t)
    IN  op.keys \o SelectSeq(<<"apikey", "nonce">>, LAMBDA k : k \in DOMAIN p)

InitApi ==
    /\ pc = "api"
    /\ \E settings \in Configs :
          /\ shares = settings.shares
          /\ spread = SplitSlash(settings.spread)
    /\ orders = <<>>
    /\ active = 0
    /\ last_trade = "None"
    /\ market_history = <<>>
    /\ market_avg = Unbound
    /\ market_max = Unbound
    /\ ticker = UnboundTicker
    /\ total_units = UnboundVal
    /\ uuid = Unbound
    /\ exchange = <<>>
    /\ now = 0
    /\ log = <<>>
    /\ last_req = NoRequest
    /\ exit_status = <<>>
    /\ stderr = <<>>
    /\ exception = "None"
    /\ received = <<>>

\* The client calls an operation
Invoke ==
    /\ pc = "api"
    /\ Len(log) < MaxCalls
    /\ \E op \in Operations : pc' = op.name
    /\ UNCHANGED << loopVars, localVars, endVars, exchange, now, log, last_req,
                    received >>

\* get (lines 618-667).  An operation that passes no params leaves params
\* bound to its default, the type dict (line 618): params['apikey'] = ...
\* (line 638) and params.iteritems() (line 643) raise TypeError on it.
Get ==
    \E op \in Operations :
       /\ pc = op.name
       /\ IF ~op.params
          THEN /\ pc' = "crashed"
               /\ exception' = "TypeError"
               /\ exit_status' = <<1>>
               /\ stderr' = Append(stderr, <<"Traceback", "TypeError">>)
               /\ UNCHANGED << loopVars, localVars, exchange, now, log,
                               last_req, received >>
          ELSE \E ord \in IterOrders(Inserted(op, now)) :
                 LET req == BuildRequest(op.method, Params(op), op.signed,
                                         now, ord)
                 IN  \/ \E m \in Messages :
                          /\ Sent(op.name, req, FALSE, FALSE, m)
                          /\ Failure(m)
                     \/ /\ Sent(op.name, req, TRUE, FALSE, "")
                        /\ pc' = "api"
                        /\ UNCHANGED << loopVars, localVars, endVars,
                                        exchange, now >>

NextApi ==
    \/ Invoke
    \/ Get
    \/ Tick

SpecApi == InitApi /\ [][NextApi]_vars

-----------------------------------------------------------------------------
(* Properties *)

LimitCalls == {"buylimit", "selllimit"}

\* The limit orders submitted so far, in the order submitted
Submitted == SelectSeq(log, LAMBDA e : e.call \in LimitCalls)

IsPoll(i) == log[i].call = "poll"
IsLimit(i) == log[i].call \in LimitCalls

\* C1: any two consecutively submitted limit orders have opposite sides
\* (a BUY is followed by a SELL and a SELL by a BUY).
C1_SidesAlternate ==
    \A k \in 1..(Len(Submitted) - 1) :
        /\ Submitted[k].call = "buylimit" => Submitted[k + 1].call = "selllimit"
        /\ Submitted[k].call = "selllimit" => Submitted[k + 1].call = "buylimit"

C1_Witness ==
    /\ Len(Submitted) >= 3
    /\ Submitted[2].call = "buylimit"
    /\ Submitted[3].call = "selllimit"

\* C2: the first limit order a session submits is a BUY order.
C2_FirstOrderIsBuy ==
    Len(Submitted) >= 1 => Submitted[1].call = "buylimit"

\* C3: at most one submitted order is open at any time; no limit order is
\* being prepared or issued while the most recently submitted order is open;
\* a poll that returned IsOpen true is not followed by a submission before a
\* later poll returned IsOpen false.
C3_OneOpenOrder ==
    /\ Cardinality(OpenOrders) <= 1
    /\ pc \in {"submit", "history", "stats", "ticker", "trade"} => OpenOrders = {}
    /\ \A i, j \in 1..Len(log) :
          (i < j /\ IsPoll(i) /\ log[i].ok /\ log[i].open /\ IsLimit(j))
             => \E k \in (i + 1)..(j - 1) :
                   IsPoll(k) /\ log[k].ok /\ ~log[k].open

C3_Witness ==
    \E i, j \in 1..Len(log) :
        /\ i < j
        /\ IsPoll(i) /\ log[i].ok /\ log[i].open
        /\ IsLimit(j) /\ log[j].ok
        /\ Cardinality(OpenOrders) = 1

\* C4: between a poll that returned IsOpen false and the next poll, exactly
\* one limit order is submitted.
C4_OneOrderPerClosedPoll ==
    \A i, j \in 1..Len(log) :
        ( /\ i < j
          /\ IsPoll(i) /\ log[i].ok /\ ~log[i].open
          /\ IsPoll(j)
          /\ \A k \in (i + 1)..(j - 1) : ~IsPoll(k) )
        => Cardinality({ k \in (i + 1)..(j - 1) : IsLimit(k) }) = 1

C4_Witness ==
    \E i, j \in 1..Len(log) :
        /\ i < j
        /\ IsPoll(i) /\ log[i].ok /\ ~log[i].open
        /\ IsPoll(j)
        /\ \A k \in (i + 1)..(j - 1) : ~IsPoll(k)

\* The response with success = false just received, if any
FailedCall == Len(log') = Len(log) + 1 /\ ~log'[Len(log')].ok

\* C5: a response with success = false ends the process with a non-zero exit
\* status after the server's message is printed, leaves the ledger and the
\* cursor as they were, and no request follows it.
C5_RejectionIsFatal ==
    [][ /\ FailedCall =>
             /\ pc' = "exited"
             /\ Len(exit_status') = 1 /\ exit_status'[1] # 0
             /\ stderr' = Append(stderr, <<"Bittex response: %s",
                                           log'[Len(log')].msg>>)
             /\ orders' = orders
             /\ active' = active
        /\ pc = "exited" =>
             /\ pc' = "exited"
             /\ log' = log
             /\ last_req' = last_req
             /\ orders' = orders
             /\ active' = active
             /\ exit_status' = exit_status ]_vars

C5_Witness ==
    /\ pc = "exited"
    /\ exit_status = <<1>>
    /\ Len(orders) = 1
    /\ log[Len(log)].call = "buylimit"
    /\ ~log[Len(log)].ok
    /\ stderr = << <<"Bittex response: %s", "INSUFFICIENT_FUNDS">> >>

\* The value sent for a parameter of the last request
QueryValue(name) ==
    LET q == last_req.url.query
        i == CHOOSE i \in 1..Len(q) : q[i][1] = name
    IN  q[i][2]

\* a >= b for rationals with positive denominators
RatGeq(a, b) == IF a.d = b.d THEN a.n >= b.n ELSE a.n * b.d >= b.n * a.d

\* The last request sent is a limit order (submit_order's locals are set)
LimitSent == Len(log) >= 1 /\ log[Len(log)].call \in LimitCalls

\* C6: the quantity q of every limit order satisfies q >= configured share
\* size and q >= 0.0005 / ticker.Last.
C6_QuantityIsMax ==
    LimitSent =>
        LET q == QueryValue("quantity")
        IN  /\ RatGeq(q, shares)
            /\ RatGeq(q, [n |-> MinNotional, d |-> ticker.Last])

Abs(x) == IF x < 0 THEN 0 - x ELSE x

\* The fields of the "markup/markdown" setting
Markup == spread[1].n
Markdown == spread[2].n

\* C7: a BUY order is sent at Bid * (1 - markdown) and a SELL order at
\* Ask * (1 + markup), each rounded to 8 decimals; bid 0.05, ask 0.051 and
\* spread 0.02/0.01 give 0.04950000 and 0.05202000.
C7_LimitPrice ==
    LimitSent =>
        LET rate == QueryValue("rate")
        IN  /\ rate.d = One
            /\ log[Len(log)].call = "buylimit" =>
                 /\ 2 * Abs(rate.n * SpreadDen - ticker.Bid * (SpreadDen - Markdown))
                       <= SpreadDen
                 /\ (ticker.Bid = 5000000 /\ Markdown = 1) => rate.n = 4950000
            /\ log[Len(log)].call = "selllimit" =>
                 /\ 2 * Abs(rate.n * SpreadDen - ticker.Ask * (SpreadDen + Markup))
                       <= SpreadDen
                 /\ (ticker.Ask = 5100000 /\ Markup = 2) => rate.n = 5202000

C7_Witness ==
    /\ LimitSent
    /\ log[Len(log)].call = "buylimit"
    /\ ticker.Bid = 5000000
    /\ Markup = 2 /\ Markdown = 1
    /\ QueryValue("rate").n = 4950000

\* The records of the trade history whose side is the side being submitted
Matching ==
    { i \in 1..Len(market_history) : market_history[i].OrderType = last_trade }

RECURSIVE SumPrices(_)
SumPrices(S) ==
    IF S = {} THEN 0
    ELSE LET i == CHOOSE i \in S : TRUE
         IN  market_history[i].Price + SumPrices(S \ {i})

ExampleHistory ==
    <<Trade(One, "BUY"), Trade(3 * One, "BUY"), Trade(2 * One, "SELL")>>

\* C8: the statistics are the mean (to 8 decimals) and the maximum of the
\* prices of exactly the records of the side being submitted, so mean <= max;
\* [1.0 BUY, 3.0 BUY, 2.0 SELL] gives BUY {2.0, 3.0} and SELL {2.0, 2.0}.
C8_StatsOfSide ==
    pc = "ticker" =>
        LET count == Cardinality(Matching)
            total == SumPrices(Matching)
        IN  /\ count >= 1
            /\ 2 * Abs(market_avg * count - total) <= count
            /\ \E i \in Matching : market_history[i].Price = market_max
            /\ \A i \in Matching : market_history[i].Price <= market_max
            /\ market_avg <= market_max
            /\ (market_history = ExampleHistory /\ last_trade = "BUY")
                  => (market_avg = 2 * One /\ market_max = 3 * One)
            /\ (market_history = ExampleHistory /\ last_trade = "SELL")
                  => (market_avg = 2 * One /\ market_max = 2 * One)

C8_Witness ==
    /\ pc = "ticker"
    /\ market_history = ExampleHistory
    /\ last_trade = "BUY"
    /\ market_avg = 2 * One
    /\ market_max = 3 * One

\* C9: with no record of the side being submitted in the trade history,
\* submit_order ends in an error: no limit order is issued, the ledger and
\* the cursor stay as they were, and nothing is sent afterwards.
C9_EmptySampleAborts ==
    [][ /\ (pc = "stats" /\ Matching = {} /\ pc' # "stats") =>
             /\ pc' = "crashed"
             /\ exception' = "ValueError"
             /\ exit_status' = <<1>>
             /\ log' = log
             /\ exchange' = exchange
             /\ orders' = orders
             /\ active' = active
        /\ pc = "crashed" =>
             /\ pc' = "crashed"
             /\ log' = log
             /\ orders' = orders
             /\ active' = active ]_vars

C9_Witness ==
    /\ pc = "crashed"
    /\ exception = "ValueError"
    /\ market_history # <<>>
    /\ Matching = {}
    /\ Len(orders) = 1
    /\ ~LimitSent

\* C10: the apisign header of an authenticated request is the signature,
\* under the client's secret, of exactly the URL that is transmitted.
C10_SignsTransmittedUrl ==
    last_req.signed =>
        /\ last_req.url.base = BASE_URL
        /\ last_req.headers = { <<"apisign", Sign(secret, last_req.url)>> }

C10_Witness ==
    /\ last_req.signed
    /\ last_req.url.method = "market/buylimit"
    /\ Len(last_req.url.query) = 5
    /\ last_req.url.query[1][1] = "nonce"
    /\ last_req.headers = { <<"apisign", Sign(secret, last_req.url)>> }

\* A request was sent in this step
SentNow == Len(log') = Len(log) + 1

\* The call answered in this step
CallNow == log'[Len(log')]

\* The operations the contract calls private and public
PrivateOperations ==
    { "market_buy_limit", "market_sell_limit", "market_cancel",
      "market_open_orders", "account_balances", "account_balance",
      "account_deposit_address", "account_withdraw", "account_order",
      "account_order_history", "account_deposit_history",
      "account_withdrawl_history" }

PublicOperations ==
    { "public_markets", "public_currencies", "public_ticker",
      "public_market_summaries", "public_market_summary",
      "public_market_history", "public_order_book" }

HasParam(req, name) == \E i \in 1..Len(req.url.query) : req.url.query[i][1] = name

HasHeader(req, name) == \E h \in req.headers : h[1] = name

\* C11: a request carries the apikey parameter, the nonce parameter and the
\* apisign header exactly when its operation is a private one; a public
\* request carries none of them, whatever was called before.
C11_AuthOnlyOnPrivate ==
    [][ SentNow =>
          LET req == last_req'
              private == CallNow.call \in PrivateOperations
          IN  /\ CallNow.call \in PrivateOperations \cup PublicOperations
              /\ HasParam(req, "apikey") <=> private
              /\ HasParam(req, "nonce") <=> private
              /\ HasHeader(req, "apisign") <=> private ]_vars

C11_Witness ==
    /\ pc = "api"
    /\ Len(log) = 2
    /\ log[1].call = "account_withdraw" /\ log[1].ok
    /\ log[2].call = "public_order_book" /\ log[2].ok
    /\ Len(last_req.url.query) = 2
    /\ ~HasParam(last_req, "apikey")
    /\ ~HasParam(last_req, "nonce")
    /\ last_req.headers = {}

ParameterlessOperations ==
    { "public_markets", "public_currencies", "public_market_summaries",
      "account_balances" }

\* C13: a call of a parameterless operation sends the request of its method
\* with no parameter but apikey and nonce when authenticated, and returns
\* on success = true or exits on success = false, as the other operations
\* do.
C13_ParameterlessRequest ==
    [][ (pc \in ParameterlessOperations /\ pc' # pc) =>
          /\ SentNow
          /\ CallNow.call = pc
          /\ \A i \in 1..Len(last_req'.url.query) :
                last_req'.url.query[i][1] \in {"apikey", "nonce"}
          /\ Len(last_req'.url.query) = IF pc \in PrivateOperations THEN 2 ELSE 0
          /\ pc' = IF CallNow.ok THEN "api" ELSE "exited" ]_vars

\* C12: the nonces of successive authenticated requests never decrease.
C12_NonceMonotone ==
    Len(received) = 2 => received[1].nonce <= received[2].nonce

C12_Witness ==
    /\ Len(received) = 2
    /\ received[1].nonce < received[2].nonce
    /\ Len(log) >= 1 /\ log[Len(log)].call = "poll"

\* C14: the cursor equals the ledger length, the ledger only grows at its
\* end, and a poll asks for the order of the last ledger entry.
C14_LedgerAppendOnly ==
    [][ /\ active = Len(orders)
        /\ active' = Len(orders')
        /\ Len(orders') >= Len(orders)
        /\ SubSeq(orders', 1, Len(orders)) = orders
        /\ (SentNow /\ CallNow.call = "poll") =>
              ReqValue(last_req', "uuid").n = orders[Len(orders)].OrderUuid ]_vars

C14_Witness ==
    /\ Len(orders) = 2
    /\ active = 2
    /\ Len(log) >= 1 /\ log[Len(log)].call = "poll"
    /\ QueryValue("uuid").n = orders[2].OrderUuid

\* C16: in a submit_order cycle the calls are history, ticker, limit order,
\* get order; the ledger grows, by one entry and together with the cursor,
\* exactly when the get order call succeeded, and the entry is the record of
\* the order the limit call of that cycle created.
C16_SubmitCycle ==
    [][ /\ \A i \in 1..Len(log') :
              /\ log'[i].call \in LimitCalls =>
                    /\ i >= 3
                    /\ log'[i - 1].call = "ticker" /\ log'[i - 1].ok
                    /\ log'[i - 2].call = "history" /\ log'[i - 2].ok
              /\ log'[i].call = "store" =>
                    /\ i >= 4
                    /\ log'[i - 1].call \in LimitCalls /\ log'[i - 1].ok
        /\ (orders' # orders \/ active' # active)
              <=> (SentNow /\ CallNow.call = "store" /\ CallNow.ok)
        /\ (SentNow /\ CallNow.call = "store" /\ CallNow.ok) =>
              /\ Len(orders') = Len(orders) + 1
              /\ active' = active + 1
              /\ uuid = Len(exchange)
              /\ ReqValue(last_req', "uuid").n = uuid
              /\ orders'[Len(orders')] = exchange[uuid]
              /\ orders'[Len(orders')].Type =
                    (IF log[Len(log)].call = "buylimit" THEN "LIMIT_BUY"
                     ELSE "LIMIT_SELL") ]_vars

C16_Witness ==
    /\ Len(orders) = 2
    /\ Len(log) >= 8
    /\ log[Len(log)].call = "store" /\ log[Len(log)].ok
    /\ log[Len(log) - 1].call = "buylimit"
    /\ orders[2] = exchange[2]
    /\ orders[2].Type = "LIMIT_BUY"

\* C17: a poll and the wait after it leave the ledger, the cursor and the
\* last side as they were; a ledger entry never changes once appended, and
\* the ledger changes only when a submission succeeded.
C17_PollingKeepsState ==
    [][ /\ ((SentNow /\ CallNow.call = "poll") \/ pc = "wait") =>
              /\ orders' = orders
              /\ active' = active
              /\ last_trade' = last_trade
        /\ orders' # orders => (SentNow /\ CallNow.call = "store" /\ CallNow.ok)
        /\ \A k \in 1..Len(orders) : orders'[k] = orders[k] ]_vars

C17_Witness ==
    /\ pc = "submit"
    /\ log[Len(log)].call = "poll" /\ log[Len(log)].ok /\ ~log[Len(log)].open
    /\ orders[active].IsOpen
    /\ ~exchange[active].IsOpen

\* C19: two authenticated requests issued in the same second carry the same
\* nonce.
C19_SameSecondSameNonce ==
    (Len(received) = 2 /\ received[1].at = received[2].at)
        => received[1].nonce = received[2].nonce

\* the limit order and the get order call that follows it, with equal nonces
C19_Witness ==
    /\ Len(log) >= 4
    /\ log[Len(log)].call = "store"
    /\ log[Len(log) - 1].call \in LimitCalls
    /\ Len(received) = 2
    /\ received[1].at = received[2].at
    /\ received[1].nonce = received[2].nonce

\* The limit orders the exchange accepted
Accepted == { i \in 1..Len(log) : log[i].call \in LimitCalls /\ log[i].ok }

\* C20: while the loop polls or waits, and once a rejection ended the
\* process, the number of accepted limit orders equals the ledger length.
C20_AcceptedAreLedgered ==
    pc \in {"loop", "wait", "exited"} => Cardinality(Accepted) = Len(orders)

\* C20 as amended: the same, except after a rejected get order call of
\* submit_order, where the order just accepted has no ledger entry.
C20_AcceptedLedgeredUnlessFetchRejected ==
    /\ pc \in {"loop", "wait"} => Cardinality(Accepted) = Len(orders)
    /\ pc = "exited" =>
          Cardinality(Accepted) =
             Len(orders) + (IF log[Len(log)].call = "store" THEN 1 ELSE 0)

C20_Witness ==
    /\ pc = "exited"
    /\ log[Len(log)].call = "store"
    /\ Cardinality(Accepted) = 2
    /\ Len(orders) = 1
    /\ OpenOrders = {2}

Running == pc \notin {"exited", "crashed"}

\* C15: a poll answered IsOpen true is followed by the 30-second wait and
\* then by another poll of the same order, however often this was repeated;
\* neither a submission nor an end of the process comes in between.
C15_OpenPollRepeats ==
    /\ [][ (SentNow /\ CallNow.call = "poll" /\ CallNow.ok /\ CallNow.open)
              => pc' = "wait" ]_vars
    /\ [][ (pc = "wait" /\ pc' # "wait")
              => (pc' = "loop" /\ now' = now + WaitSeconds /\ log' = log) ]_vars
    /\ [][ ( /\ SentNow
             /\ Len(log) >= 1
             /\ log[Len(log)].call = "poll"
             /\ log[Len(log)].ok
             /\ log[Len(log)].open )
              => /\ CallNow.call = "poll"
                 /\ ReqValue(last_req', "uuid") = ReqValue(last_req, "uuid")
                 /\ ReqValue(last_req', "nonce").n
                       >= ReqValue(last_req, "nonce").n + WaitSeconds ]_vars
    /\ [][ (pc = "loop" /\ pc' # "loop" /\ orders # <<>>)
              => (SentNow /\ CallNow.call = "poll") ]_vars
    /\ (pc = "wait") ~> (pc = "loop")

C15_Witness ==
    \E i \in 1..(Len(log) - 2) :
        /\ \A k \in i..(i + 2) : log[k].call = "poll" /\ log[k].ok /\ log[k].open
        /\ now >= 2 * WaitSeconds
        /\ Len(orders) = 1
        /\ pc = "wait"

\* C18: the process stops only on a rejected call or an empty sample;
\* otherwise it goes on issuing requests, a poll answered closed leading to
\* the next submission, until MaxRequests ends the run of the model.
C18_NeverStops ==
    /\ [](pc = "exited" => ~log[Len(log)].ok)
    /\ [](pc = "crashed" => Matching = {})
    /\ [](Running => pc \in {"loop", "wait", "submit", "history", "stats",
                            "ticker", "trade", "store"})
    /\ [][ (SentNow /\ CallNow.call = "poll" /\ CallNow.ok /\ ~CallNow.open)
              => pc' = "submit" ]_vars
    /\ <>(~Running \/ Len(log) = MaxRequests)

C18_Witness ==
    /\ Running
    /\ Len(Submitted) = 3
    /\ \A i \in 1..Len(log) : log[i].ok
    /\ pc = "store"

====
